---------------------------- MODULE Spec2Model ----------------------------
(***************************************************************************)
(* A model of the osu-db binary codecs: the `osu!.db` beatmap listing      *)
(* (listing.rs) and the replay / score record (replay.rs).                 *)
(*                                                                         *)
(* Representation of values                                                *)
(*   byte, u8, u16     a natural number                                    *)
(*   u32, i32, f32     the 32-bit pattern, held as the two's-complement    *)
(*                     integer in -2^31 .. 2^31-1 (so 0xffffffff is -1)    *)
(*   u64, f64, ticks   the 64-bit pattern, held as <<lo, hi>>, two 32-bit  *)
(*                     patterns, low limb first as on the wire             *)
(*   Option<T>         None is <<>>, Some(v) is <<v>>                      *)
(*   String            the sequence of its UTF-8 bytes                     *)
(* A floating-point number is fixed point: an f32 pattern c stands for     *)
(* c/4, and an f64 <<lo, hi>> for hi/4 plus the fraction lo below one      *)
(* quarter, so that f64 holds digits an f32 cannot and narrowing rounds.   *)
(* A parser takes the buffer and the offset reached and returns            *)
(* [ok, pos, val]: nom's IResult, with the remaining input given by pos.   *)
(***************************************************************************)
EXTENDS Integers, Sequences, FiniteSets, TLC

VARIABLES
    op,      \* the operation that produced the current state
    value,   \* the in-memory value given to the encoder (or NoValue)
    arg,     \* the codec argument: version, compression level or flag
    wire,    \* the byte buffer: encoder output, possibly damaged afterwards
    clean,   \* the buffer as the encoder left it
    damage,  \* what happened to the buffer since: none, corrupt, truncate
    result,  \* what the last decoder call returned
    rem      \* the bytes the last decoder call left unread (-1: it failed)

vars == <<op, value, arg, wire, clean, damage, result, rem>>

----------------------------------------------------------------------------
(* Format thresholds.                                                      *)

CHANGE_20140609 == 20140609
CHANGE_20191106 == 20191106
CHANGE_20250107 == 20250107
DEFAULT_COMPRESSION_LEVEL == 5

----------------------------------------------------------------------------
(* Option and parser results.                                              *)

None == <<>>
Some(v) == <<v>>
IsSome(o) == Len(o) = 1
Unwrap(o) == o[1]

NoValue == [none |-> TRUE]
Err == [ok |-> FALSE, pos |-> 0, val |-> NoValue]
Ok(p, v) == [ok |-> TRUE, pos |-> p, val |-> v]

\* `?`: an error is returned as it is, a success is handed on
Try(r, Then(_)) == IF r.ok THEN Then(r) ELSE Err

\* an error is recovered from: `otherwise` is the result in its place
OrElse(r, Then(_), otherwise) == IF r.ok THEN Then(r) ELSE otherwise

RECURSIVE Concat(_)
Concat(ss) == IF Len(ss) = 0 THEN <<>> ELSE Head(ss) \o Concat(Tail(ss))

RECURSIVE LE(_, _)
\* the w little-endian bytes of a two's-complement pattern n
LE(n, w) == IF w = 0 THEN <<>> ELSE <<n % 256>> \o LE(n \div 256, w - 1)

\* the 32-bit pattern of four little-endian bytes
FromLE4(b1, b2, b3, b4) ==
    b1 + 256 * b2 + 65536 * b3
       + 16777216 * (IF b4 >= 128 THEN b4 - 256 ELSE b4)

----------------------------------------------------------------------------
(* Primitive readers and writers (the crate prelude).                      *)

Has(bytes, pos, n) == pos + n <= Len(bytes)

byte(bytes, pos) ==
    IF Has(bytes, pos, 1) THEN Ok(pos + 1, bytes[pos + 1]) ELSE Err

short(bytes, pos) ==
    IF Has(bytes, pos, 2)
    THEN Ok(pos + 2, bytes[pos + 1] + 256 * bytes[pos + 2])
    ELSE Err

int(bytes, pos) ==
    IF Has(bytes, pos, 4)
    THEN Ok(pos + 4, FromLE4(bytes[pos + 1], bytes[pos + 2],
                             bytes[pos + 3], bytes[pos + 4]))
    ELSE Err

long(bytes, pos) ==
    LET lo == int(bytes, pos)
        hi == int(bytes, pos + 4)
    IN  IF Has(bytes, pos, 8) THEN Ok(pos + 8, <<lo.val, hi.val>>) ELSE Err

single(bytes, pos) == int(bytes, pos)

double(bytes, pos) == long(bytes, pos)

boolean(bytes, pos) ==
    Try(byte(bytes, pos), LAMBDA b : Ok(b.pos, b.val # 0))

datetime(bytes, pos) == long(bytes, pos)

tag(bytes, pos, lit) ==
    IF Has(bytes, pos, Len(lit)) /\ SubSeq(bytes, pos + 1, pos + Len(lit)) = lit
    THEN Ok(pos + Len(lit), lit)
    ELSE Err

\* Larger than any buffer of the model: a length that cannot be satisfied.
HugeLen == 1048576

RECURSIVE uleb(_, _)
\* LEB128: seven bits a byte, low group first, the top bit continues.
uleb(bytes, pos) ==
    IF ~Has(bytes, pos, 1) THEN Err
    ELSE IF bytes[pos + 1] < 128 THEN Ok(pos + 1, bytes[pos + 1])
    ELSE Try(uleb(bytes, pos + 1), LAMBDA rest :
            Ok(rest.pos,
               IF rest.val >= HugeLen \div 128 THEN HugeLen
               ELSE (bytes[pos + 1] % 128) + 128 * rest.val))

RECURSIVE wr_uleb(_)
wr_uleb(n) ==
    IF n < 128 THEN <<n>> ELSE <<128 + (n % 128)>> \o wr_uleb(n \div 128)

\* The buffers of the model hold no byte 0x80..0xf7, and 0xf8..0xff never
\* occurs in UTF-8: a string is valid exactly when it is ASCII.
Utf8Valid(s) == \A i \in 1..Len(s) : s[i] < 128

\* take(len), then from_utf8
utf8(bytes, pos, len) ==
    IF Has(bytes, pos, len) /\ Utf8Valid(SubSeq(bytes, pos + 1, pos + len))
    THEN Ok(pos + len, Some(SubSeq(bytes, pos + 1, pos + len)))
    ELSE Err

opt_string(bytes, pos) ==
    Try(byte(bytes, pos), LAMBDA first :
        IF first.val = 0 THEN Ok(first.pos, None)
        ELSE IF first.val = 11
        THEN Try(uleb(bytes, first.pos), LAMBDA len :
                 utf8(bytes, len.pos, len.val))
        ELSE Err)

wr_byte(b) == <<b>>
wr_short(n) == LE(n, 2)
wr_int(n) == LE(n, 4)
wr_long(n) == LE(n[1], 4) \o LE(n[2], 4)
wr_single(f) == LE(f, 4)
wr_double(f) == LE(f[1], 4) \o LE(f[2], 4)
wr_boolean(b) == IF b THEN <<1>> ELSE <<0>>
wr_datetime(t) == wr_long(t)
wr_opt_string(s) ==
    IF IsSome(s) THEN <<11>> \o wr_uleb(Len(Unwrap(s))) \o Unwrap(s) ELSE <<0>>

U64(n) == <<n, 0>>

(* Numeric casts.                                                          *)
MaxI32 == 2147483646 + 1
\* `f32 as u8`: truncates toward zero and saturates at 0 and 255
F32AsU8(f) == IF f < 0 THEN 0 ELSE IF f \div 4 > 255 THEN 255 ELSE f \div 4
\* `u8 as f32`
U8AsF32(b) == 4 * b
\* `f32 as f64`: exact
F32AsF64(f) == <<0, f>>
\* `f64 as f32`: rounds to the nearest f32 (the low limb's top bit is a half)
F64AsF32(d) == IF d[1] < 0 /\ d[2] < MaxI32 THEN d[2] + 1 ELSE d[2]
F64(quarters) == <<0, quarters>>

ModeFromRaw(b) ==
    CASE b = 0 -> Some("Standard")
      [] b = 1 -> Some("Taiko")
      [] b = 2 -> Some("CatchTheBeat")
      [] b = 3 -> Some("Mania")
      [] OTHER -> None

ModeRaw(m) ==
    CASE m = "Standard" -> 0
      [] m = "Taiko" -> 1
      [] m = "CatchTheBeat" -> 2
      [] m = "Mania" -> 3

----------------------------------------------------------------------------
(* RankedStatus and Grade.                                                 *)

RankedStatusSet ==
    {"Unknown", "Unsubmitted", "PendingWipGraveyard", "Ranked", "Approved",
     "Qualified", "Loved"}

RankedStatus_from_raw(b) ==
    CASE b = 0 -> Some("Unknown")
      [] b = 1 -> Some("Unsubmitted")
      [] b = 2 -> Some("PendingWipGraveyard")
      [] b = 4 -> Some("Ranked")
      [] b = 5 -> Some("Approved")
      [] b = 6 -> Some("Qualified")
      [] b = 7 -> Some("Loved")
      [] OTHER -> None

RankedStatus_raw(s) ==
    CASE s = "Unknown" -> 0
      [] s = "Unsubmitted" -> 1
      [] s = "PendingWipGraveyard" -> 2
      [] s = "Ranked" -> 4
      [] s = "Approved" -> 5
      [] s = "Qualified" -> 6
      [] s = "Loved" -> 7

GradeSet == {"SSPlus", "SPlus", "SS", "S", "A", "B", "C", "D", "Unplayed"}

Grade_raw(g) ==
    CASE g = "SSPlus" -> 0
      [] g = "SPlus" -> 1
      [] g = "SS" -> 2
      [] g = "S" -> 3
      [] g = "A" -> 4
      [] g = "B" -> 5
      [] g = "C" -> 6
      [] g = "D" -> 7
      [] g = "Unplayed" -> 9

\* a table of grades with no gap at 8
Grade_from_raw_contiguous(raw) ==
    IF raw \in 0..8
    THEN Some(<<"SSPlus", "SPlus", "SS", "S", "A", "B", "C", "D",
                "Unplayed">>[raw + 1])
    ELSE None

Grade_from_raw(raw) ==
    CASE raw = 0 -> Some("SSPlus")
      [] raw = 1 -> Some("SPlus")
      [] raw = 2 -> Some("SS")
      [] raw = 3 -> Some("S")
      [] raw = 4 -> Some("A")
      [] raw = 5 -> Some("B")
      [] raw = 6 -> Some("C")
      [] raw = 7 -> Some("D")
      [] raw = 9 -> Some("Unplayed")
      [] OTHER -> None

\* map_opt(byte, f): a byte the conversion rejects is a parse error
map_opt(r, f(_)) ==
    IF r.ok /\ IsSome(f(r.val)) THEN Ok(r.pos, Unwrap(f(r.val))) ELSE Err

ranked_status(bytes, pos) ==
    map_opt(byte(bytes, pos), LAMBDA b : RankedStatus_from_raw(b))

grade(bytes, pos) ==
    map_opt(byte(bytes, pos), LAMBDA raw : Grade_from_raw(raw))

mode(bytes, pos) ==
    map_opt(byte(bytes, pos), LAMBDA b : ModeFromRaw(b))

wr_RankedStatus(s) == wr_byte(RankedStatus_raw(s))
wr_Grade(g) == wr_byte(Grade_raw(g))

\* a reading of the pair that goes by the placeholder and not by the flag
option_by_content(is_none, content) ==
    IF content = <<0, 0>> THEN None ELSE Some(content)

build_option(is_none, content) == IF is_none THEN None ELSE Some(content)

write_option(opt, def) ==
    IF IsSome(opt)
    THEN wr_boolean(FALSE) \o wr_datetime(Unwrap(opt))
    ELSE wr_boolean(TRUE) \o wr_long(def)

----------------------------------------------------------------------------
(* Sequencing: a parser of a record is the list of its fields in stream    *)
(* order, each <<name, parser, present>>; the first field that fails fails *)
(* the record (the `?` after every step).  cond(c, p) is a field whose     *)
(* third component is c: absent, it consumes nothing and yields None.      *)

RECURSIVE Field(_, _, _, _)
RECURSIVE steps(_, _, _, _, _, _, _)
\* the fields lo..hi in order, each starting where the one before ended;
\* `name: parser >>` binds the field's value under its name
steps(bytes, pos, fields, lo, hi, acc, version) ==
    IF lo > hi THEN Ok(pos, acc)
    ELSE IF lo = hi
    THEN Try(IF fields[lo][3] THEN Field(fields[lo][2], bytes, pos, version)
             ELSE Ok(pos, None),
             LAMBDA r : Ok(r.pos, acc @@ (fields[lo][1] :> r.val)))
    ELSE Try(steps(bytes, pos, fields, lo, (lo + hi) \div 2, acc, version),
             LAMBDA r : steps(bytes, r.pos, fields, (lo + hi) \div 2 + 1, hi,
                              r.val, version))

do_parse(bytes, pos, fields, i, acc, version) ==
    steps(bytes, pos, fields, i, Len(fields), acc, version)

Empty == [x \in {} |-> 0]

RECURSIVE count(_, _, _, _, _, _)
\* nom's count: n elements in a row, an error at the first that fails
count(bytes, pos, elem, n, acc, version) ==
    IF n = 0 THEN Ok(pos, acc)
    ELSE Try(Field(elem, bytes, pos, version), LAMBDA r :
             count(bytes, r.pos, elem, n - 1, Append(acc, r.val), version))

RECURSIVE count_while(_, _, _, _, _, _)
\* up to n elements: the first that fails ends the list
count_while(bytes, pos, elem, n, acc, version) ==
    IF n = 0 THEN Ok(pos, acc)
    ELSE OrElse(Field(elem, bytes, pos, version),
                LAMBDA r : count_while(bytes, r.pos, elem, n - 1,
                                       Append(acc, r.val), version),
                Ok(pos, acc))

\* a list that keeps the elements read before the one that fails
length_count_lenient(bytes, pos, elem, version) ==
    Try(int(bytes, pos), LAMBDA n :
        IF n.val < 0 \/ n.val > Len(bytes) THEN Err
        ELSE count_while(bytes, n.pos, elem, n.val, <<>>, version))

\* length_count(map(int, identity), elem).  Every element takes at least one
\* byte, so a count above the buffer's length (a negative pattern is 2^31 or
\* more) runs out of input.
length_count(bytes, pos, elem, version) ==
    Try(int(bytes, pos), LAMBDA n :
        IF n.val < 0 \/ n.val > Len(bytes) THEN Err
        ELSE count(bytes, n.pos, elem, n.val, <<>>, version))

----------------------------------------------------------------------------
(* Star ratings, timing points, difficulty values.                         *)

star_rating_fields(version) ==
    IF version < CHANGE_20250107
    THEN << <<"_tag", "tag 0x08", TRUE>>,
            <<"mods", "int", TRUE>>,
            <<"_tag", "tag 0x0d", TRUE>>,
            <<"stars", "double", TRUE>> >>
    ELSE << <<"_tag", "tag 0x08", TRUE>>,
            <<"mods", "int", TRUE>>,
            <<"_tag", "tag 0x0c", TRUE>>,
            <<"stars", "single", TRUE>> >>

\* a reader of the record's layout that does not compare the two tag bytes
star_rating_untagged(bytes, pos, version) ==
    Try(do_parse(bytes, pos,
                 [i \in 1..4 |->
                    <<star_rating_fields(version)[i][1],
                      IF i \in {1, 3} THEN "byte"
                      ELSE star_rating_fields(version)[i][2],
                      TRUE>>],
                 1, Empty, version),
        LAMBDA r : Ok(r.pos, <<r.val.mods,
                               IF version < CHANGE_20250107 THEN r.val.stars
                               ELSE F32AsF64(r.val.stars)>>))

star_rating(bytes, pos, version) ==
    Try(do_parse(bytes, pos, star_rating_fields(version), 1, Empty, version),
        LAMBDA r : Ok(r.pos, <<r.val.mods,
                               IF version < CHANGE_20250107 THEN r.val.stars
                               ELSE F32AsF64(r.val.stars)>>))

RECURSIVE Deduplicated(_)
\* the table with one record kept for each combination of modifiers
Deduplicated(list) ==
    IF Len(list) = 0 THEN <<>>
    ELSE IF \E j \in 2..Len(list) : list[j][1] = list[1][1]
    THEN Deduplicated(Tail(list))
    ELSE <<Head(list)>> \o Deduplicated(Tail(list))

\* a table read as a map from the modifiers to the rating
star_ratings_keyed(bytes, pos, version) ==
    IF version >= CHANGE_20140609
    THEN Try(length_count(bytes, pos, "star_rating", version),
             LAMBDA r : Ok(r.pos, Deduplicated(r.val)))
    ELSE Ok(pos, <<>>)

star_ratings(bytes, pos, version) ==
    IF version >= CHANGE_20140609
    THEN length_count(bytes, pos, "star_rating", version)
    ELSE Ok(pos, <<>>)

\* a record written with a double at every version
wr_star_rating_double(this, version) ==
    wr_byte(8) \o wr_int(this[1]) \o wr_byte(13) \o wr_double(this[2])

wr_star_rating(this, version) ==
    wr_byte(8) \o wr_int(this[1]) \o
    (IF version < CHANGE_20250107
     THEN wr_byte(13) \o wr_double(this[2])
     ELSE wr_byte(12) \o wr_single(F64AsF32(this[2])))

\* PrefixedList(list).wr_args(out, version): the length, then each element
PrefixedRatings(list, version) ==
    wr_int(Len(list)) \o
    Concat([i \in 1..Len(list) |-> wr_star_rating(list[i], version)])

\* a table written with its count at any version
wr_star_ratings_ungated(this, version) == PrefixedRatings(this, version)

wr_star_ratings(this, version) ==
    IF version >= CHANGE_20140609 THEN PrefixedRatings(this, version) ELSE <<>>

timing_point_fields ==
    << <<"bpm", "double", TRUE>>,
       <<"offset", "double", TRUE>>,
       <<"inherits", "boolean", TRUE>> >>

timing_point(bytes, pos) ==
    do_parse(bytes, pos, timing_point_fields, 1, Empty, 0)

wr_TimingPoint(this) ==
    wr_double(this.bpm) \o wr_double(this.offset) \o wr_boolean(this.inherits)

PrefixedTimingPoints(list) ==
    wr_int(Len(list)) \o
    Concat([i \in 1..Len(list) |-> wr_TimingPoint(list[i])])

\* a reader that takes the one byte as a signed number
difficulty_value_signed(bytes, pos, version) ==
    IF version >= CHANGE_20140609
    THEN single(bytes, pos)
    ELSE Try(byte(bytes, pos), LAMBDA b :
             Ok(b.pos, U8AsF32(IF b.val >= 128 THEN b.val - 256 ELSE b.val)))

\* a reader of four bytes at every version
difficulty_value_wide(bytes, pos, version) == single(bytes, pos)

difficulty_value(bytes, pos, version) ==
    IF version >= CHANGE_20140609
    THEN single(bytes, pos)
    ELSE Try(byte(bytes, pos), LAMBDA b : Ok(b.pos, U8AsF32(b.val)))

wr_difficulty_value(f, version) ==
    IF version >= CHANGE_20140609 THEN wr_single(f) ELSE wr_byte(F32AsU8(f))

----------------------------------------------------------------------------
(* The beatmap entry.                                                      *)

beatmap_fields(version) ==
    << <<"_beatmap_size", "int", version < CHANGE_20191106>>,
       <<"artist_ascii", "opt_string", TRUE>>,
       <<"artist_unicode", "opt_string", TRUE>>,
       <<"title_ascii", "opt_string", TRUE>>,
       <<"title_unicode", "opt_string", TRUE>>,
       <<"creator", "opt_string", TRUE>>,
       <<"difficulty_name", "opt_string", TRUE>>,
       <<"audio", "opt_string", TRUE>>,
       <<"hash", "opt_string", TRUE>>,
       <<"file_name", "opt_string", TRUE>>,
       <<"status", "ranked_status", TRUE>>,
       <<"hitcircle_count", "short", TRUE>>,
       <<"slider_count", "short", TRUE>>,
       <<"spinner_count", "short", TRUE>>,
       <<"last_modified", "datetime", TRUE>>,
       <<"approach_rate", "difficulty_value", TRUE>>,
       <<"circle_size", "difficulty_value", TRUE>>,
       <<"hp_drain", "difficulty_value", TRUE>>,
       <<"overall_difficulty", "difficulty_value", TRUE>>,
       <<"slider_velocity", "double", TRUE>>,
       <<"std_ratings", "star_ratings", TRUE>>,
       <<"taiko_ratings", "star_ratings", TRUE>>,
       <<"ctb_ratings", "star_ratings", TRUE>>,
       <<"mania_ratings", "star_ratings", TRUE>>,
       <<"drain_time", "int", TRUE>>,
       <<"total_time", "int", TRUE>>,
       <<"preview_time", "int", TRUE>>,
       <<"timing_points", "timing_points", TRUE>>,
       <<"beatmap_id", "int", TRUE>>,
       <<"beatmapset_id", "int", TRUE>>,
       <<"thread_id", "int", TRUE>>,
       <<"std_grade", "grade", TRUE>>,
       <<"taiko_grade", "grade", TRUE>>,
       <<"ctb_grade", "grade", TRUE>>,
       <<"mania_grade", "grade", TRUE>>,
       <<"local_beatmap_offset", "short", TRUE>>,
       <<"stack_leniency", "single", TRUE>>,
       <<"mode", "mode", TRUE>>,
       <<"song_source", "opt_string", TRUE>>,
       <<"tags", "opt_string", TRUE>>,
       <<"online_offset", "short", TRUE>>,
       <<"title_font", "opt_string", TRUE>>,
       <<"unplayed", "boolean", TRUE>>,
       <<"last_played", "datetime", TRUE>>,
       <<"is_osz2", "boolean", TRUE>>,
       <<"folder_name", "opt_string", TRUE>>,
       <<"last_online_check", "datetime", TRUE>>,
       <<"ignore_sounds", "boolean", TRUE>>,
       <<"ignore_skin", "boolean", TRUE>>,
       <<"disable_storyboard", "boolean", TRUE>>,
       <<"disable_video", "boolean", TRUE>>,
       <<"visual_override", "boolean", TRUE>>,
       <<"mysterious_short", "short", version < CHANGE_20140609>>,
       <<"mysterious_last_modified", "int", TRUE>>,
       <<"mania_scroll_speed", "byte", TRUE>> >>

\* the names of the struct's fields: the stream's, less the ones read into
\* locals only (_beatmap_size, unplayed)
BeatmapKeys ==
    {beatmap_fields(0)[i][1] : i \in 1..Len(beatmap_fields(0))}
        \ {"_beatmap_size", "unplayed"}

\* an entry reader that holds the declared length against the bytes it read
beatmap_checked(bytes, pos, version) ==
    Try(do_parse(bytes, pos, beatmap_fields(version), 1, Empty, version),
        LAMBDA r :
            IF version < CHANGE_20191106
               /\ r.val._beatmap_size # r.pos - pos - 4
            THEN Err
            ELSE Ok(r.pos,
                    [k \in BeatmapKeys |->
                        CASE k = "last_played" ->
                                build_option(r.val.unplayed, r.val.last_played)
                          [] k = "mysterious_short" ->
                                IF version < CHANGE_20140609
                                THEN Some(r.val.mysterious_short) ELSE None
                          [] OTHER -> r.val[k]]))

\* cond(c, short) yields Option<u16>: Some(value) where the field is present
beatmap(bytes, pos, version) ==
    Try(do_parse(bytes, pos, beatmap_fields(version), 1, Empty, version),
        LAMBDA r :
            Ok(r.pos,
               [k \in BeatmapKeys |->
                    CASE k = "last_played" ->
                            build_option(r.val.unplayed, r.val.last_played)
                      [] k = "mysterious_short" ->
                            IF version < CHANGE_20140609
                            THEN Some(r.val.mysterious_short) ELSE None
                      [] OTHER -> r.val[k]]))

\* the legacy short written at every version
wr_mysterious_short_ungated(mysterious_short, version) ==
    wr_short(IF IsSome(mysterious_short) THEN Unwrap(mysterious_short) ELSE 0)

\* `if version<CHANGE_20140609 { this.mysterious_short.unwrap_or(0).wr(out)?; }`
wr_mysterious_short(mysterious_short, version) ==
    IF version < CHANGE_20140609
    THEN wr_short(IF IsSome(mysterious_short)
                  THEN Unwrap(mysterious_short) ELSE 0)
    ELSE <<>>

write_dry(this, version) ==
    Concat(<<
        wr_opt_string(this.artist_ascii),
        wr_opt_string(this.artist_unicode),
        wr_opt_string(this.title_ascii),
        wr_opt_string(this.title_unicode),
        wr_opt_string(this.creator),
        wr_opt_string(this.difficulty_name),
        wr_opt_string(this.audio),
        wr_opt_string(this.hash),
        wr_opt_string(this.file_name),
        wr_RankedStatus(this.status),
        wr_short(this.hitcircle_count),
        wr_short(this.slider_count),
        wr_short(this.spinner_count),
        wr_datetime(this.last_modified),
        wr_difficulty_value(this.approach_rate, version),
        wr_difficulty_value(this.circle_size, version),
        wr_difficulty_value(this.hp_drain, version),
        wr_difficulty_value(this.overall_difficulty, version),
        wr_double(this.slider_velocity),
        wr_star_ratings(this.std_ratings, version),
        wr_star_ratings(this.taiko_ratings, version),
        wr_star_ratings(this.ctb_ratings, version),
        wr_star_ratings(this.mania_ratings, version),
        wr_int(this.drain_time),
        wr_int(this.total_time),
        wr_int(this.preview_time),
        PrefixedTimingPoints(this.timing_points),
        wr_int(this.beatmap_id),
        wr_int(this.beatmapset_id),
        wr_int(this.thread_id),
        wr_Grade(this.std_grade),
        wr_Grade(this.taiko_grade),
        wr_Grade(this.ctb_grade),
        wr_Grade(this.mania_grade),
        wr_short(this.local_beatmap_offset),
        wr_single(this.stack_leniency),
        wr_byte(ModeRaw(this.mode)),
        wr_opt_string(this.song_source),
        wr_opt_string(this.tags),
        wr_short(this.online_offset),
        wr_opt_string(this.title_font),
        write_option(this.last_played, U64(0)),
        wr_boolean(this.is_osz2),
        wr_opt_string(this.folder_name),
        wr_datetime(this.last_online_check),
        wr_boolean(this.ignore_sounds),
        wr_boolean(this.ignore_skin),
        wr_boolean(this.disable_storyboard),
        wr_boolean(this.disable_video),
        wr_boolean(this.visual_override),
        wr_mysterious_short(this.mysterious_short, version),
        wr_int(this.mysterious_last_modified),
        wr_byte(this.mania_scroll_speed) >>)

\* an entry written without its length at any version
wr_Beatmap_unprefixed(this, version) == write_dry(this, version)

\* an entry whose declared length counts its own four bytes
wr_Beatmap_self_counting(this, version) ==
    IF version < CHANGE_20191106
    THEN LET raw_buf == write_dry(this, version)
         IN  wr_int(Len(raw_buf) + 4) \o raw_buf
    ELSE write_dry(this, version)

wr_Beatmap(this, version) ==
    IF version < CHANGE_20191106
    THEN LET raw_buf == write_dry(this, version)
         IN  wr_int(Len(raw_buf)) \o raw_buf
    ELSE write_dry(this, version)

----------------------------------------------------------------------------
(* The listing.                                                            *)

listing_fields ==
    << <<"version", "int", TRUE>>,
       <<"folder_count", "int", TRUE>>,
       <<"account_unlocked", "boolean", TRUE>>,
       <<"unlock_date", "datetime", TRUE>>,
       <<"player_name", "opt_string", TRUE>> >>

\* The version is an unsigned number: a pattern with the top bit set is
\* 2^31 or more, above every threshold.
AsVersion(pattern) == IF pattern < 0 THEN MaxI32 ELSE pattern

\* a listing whose permissions, when the input ends before them, are none
listing_unterminated(bytes) ==
    Try(do_parse(bytes, 0, listing_fields, 1, Empty, 0), LAMBDA head :
    Try(length_count(bytes, head.pos, "beatmap", AsVersion(head.val.version)),
        LAMBDA beatmaps :
        OrElse(int(bytes, beatmaps.pos),
               LAMBDA user_permissions :
                   Ok(user_permissions.pos,
                      [version |-> head.val.version,
                       folder_count |-> head.val.folder_count,
                       unban_date |-> build_option(head.val.account_unlocked,
                                                   head.val.unlock_date),
                       player_name |-> head.val.player_name,
                       beatmaps |-> beatmaps.val,
                       user_permissions |-> user_permissions.val]),
               Ok(Len(bytes),
                  [version |-> head.val.version,
                   folder_count |-> head.val.folder_count,
                   unban_date |-> build_option(head.val.account_unlocked,
                                               head.val.unlock_date),
                   player_name |-> head.val.player_name,
                   beatmaps |-> beatmaps.val,
                   user_permissions |-> 0]))))

\* a listing that is the whole of the input: bytes left over are an error
listing_all_consuming(bytes) ==
    Try(do_parse(bytes, 0, listing_fields, 1, Empty, 0), LAMBDA head :
    Try(length_count(bytes, head.pos, "beatmap", AsVersion(head.val.version)),
        LAMBDA beatmaps :
    Try(int(bytes, beatmaps.pos), LAMBDA user_permissions :
        IF user_permissions.pos # Len(bytes) THEN Err
        ELSE Ok(user_permissions.pos,
                [version |-> head.val.version,
                 folder_count |-> head.val.folder_count,
                 unban_date |-> build_option(head.val.account_unlocked,
                                             head.val.unlock_date),
                 player_name |-> head.val.player_name,
                 beatmaps |-> beatmaps.val,
                 user_permissions |-> user_permissions.val]))))

listing(bytes) ==
    Try(do_parse(bytes, 0, listing_fields, 1, Empty, 0), LAMBDA head :
    Try(length_count(bytes, head.pos, "beatmap", AsVersion(head.val.version)),
        LAMBDA beatmaps :
    Try(int(bytes, beatmaps.pos), LAMBDA user_permissions :
        Ok(user_permissions.pos,
           [version |-> head.val.version,
            folder_count |-> head.val.folder_count,
            unban_date |-> build_option(head.val.account_unlocked,
                                        head.val.unlock_date),
            player_name |-> head.val.player_name,
            beatmaps |-> beatmaps.val,
            user_permissions |-> user_permissions.val]))))

\* `Ok(listing(bytes).map(|(_rem, listing)| listing)?)`: what a public
\* decoder returns of a parser's result; the remainder is dropped
Returned(r) == [ok |-> r.ok, val |-> r.val]

Listing_from_bytes(bytes) == Returned(listing(bytes))

wr_Listing(this) ==
    Concat(<<
        wr_int(this.version),
        wr_int(this.folder_count),
        write_option(this.unban_date, U64(0)),
        wr_opt_string(this.player_name),
        wr_int(Len(this.beatmaps)),
        Concat([i \in 1..Len(this.beatmaps) |->
                    wr_Beatmap(this.beatmaps[i], AsVersion(this.version))]),
        wr_int(this.user_permissions) >>)

Listing_to_writer(this) == wr_Listing(this)

----------------------------------------------------------------------------
(* The plain-text action list of a replay.                                 *)

IsDigit(b) == b >= 48 /\ b <= 57

RECURSIVE DigitsEnd(_, _)
\* take_while(is_ascii_digit): the offset after the digits that start at pos
DigitsEnd(bytes, pos) ==
    IF Has(bytes, pos, 1) /\ IsDigit(bytes[pos + 1])
    THEN DigitsEnd(bytes, pos + 1) ELSE pos

RECURSIVE Decimal(_, _, _)
\* the number the digits bytes[from+1 .. to] spell
Decimal(bytes, from, to) ==
    IF to <= from THEN 0
    ELSE 10 * Decimal(bytes, from, to - 1) + (bytes[to] - 48)

Pow10(k) == 10 ^ k

\* -(hi/4 + lo), with lo nought or one half of a quarter
NegF64(d) == IF d[1] = 0 THEN <<0, 0 - d[2]>> ELSE <<d[1], 0 - d[2] - 1>>

\* A textually encoded decimal number: an optional `-`, digits, and an
\* optional `.` with digits.  The parsers are nom's streaming ones under
\* complete!: a token that runs into the end of the input is an error.
number(bytes, pos) ==
    LET signed == Has(bytes, pos, 1) /\ bytes[pos + 1] = 45
        w0 == IF signed THEN pos + 1 ELSE pos
        w1 == DigitsEnd(bytes, w0)
        dotted == Has(bytes, w1, 1) /\ bytes[w1 + 1] = 46
        d1 == IF dotted THEN DigitsEnd(bytes, w1 + 1) ELSE w1
        decimal == dotted /\ d1 > w1 + 1 /\ Has(bytes, d1, 1)
        stop == IF decimal THEN d1 ELSE w1
        whole == Decimal(bytes, w0, w1)
        eighths == IF decimal
                   THEN (8 * Decimal(bytes, w1 + 1, d1)) \div Pow10(d1 - w1 - 1)
                   ELSE 0
        num == <<IF eighths % 2 = 1 THEN 0 - MaxI32 - 1 ELSE 0,
                 4 * whole + eighths \div 2>>
    IN  IF ~Has(bytes, pos, 1) \/ w1 = w0 \/ ~Has(bytes, w1, 1) THEN Err
        ELSE Ok(stop, IF signed THEN NegF64(num) ELSE num)

\* `f64 as i64`: truncates toward zero
F64AsI64(d) ==
    IF d[2] >= 0 THEN d[2] \div 4
    ELSE IF d[1] = 0 THEN 0 - ((0 - d[2]) \div 4)
    ELSE 0 - ((0 - d[2] - 1) \div 4)

\* one record `delta|x|y|z,`
action_fields ==
    << <<"delta", "number", TRUE>>,
       <<"_tag", "tag |", TRUE>>,
       <<"x", "number", TRUE>>,
       <<"_tag", "tag |", TRUE>>,
       <<"y", "number", TRUE>>,
       <<"_tag", "tag |", TRUE>>,
       <<"z", "number", TRUE>>,
       <<"_tag", "tag ,", TRUE>> >>

action(bytes, pos) ==
    Try(do_parse(bytes, pos, action_fields, 1, Empty, 0), LAMBDA r :
        Ok(r.pos, [delta |-> F64AsI64(r.val.delta),
                   x |-> F64AsF32(r.val.x),
                   y |-> F64AsF32(r.val.y),
                   z |-> F64AsF32(r.val.z)]))

RECURSIVE many0(_, _, _)
\* many0!(complete!(record)): records are collected until one does not
\* parse; that ends the list, and the list so far is the (successful) result
many0(bytes, pos, acc) ==
    OrElse(action(bytes, pos),
           LAMBDA r : many0(bytes, r.pos, Append(acc, r.val)),
           Ok(pos, acc))

actions(bytes) == many0(bytes, 0, <<>>)

RECURSIVE FormatNat(_)
FormatNat(n) ==
    IF n < 10 THEN <<48 + n>> ELSE FormatNat(n \div 10) \o <<48 + (n % 10)>>

\* `{}` of an i64
FormatI64(n) == IF n < 0 THEN <<45>> \o FormatNat(0 - n) ELSE FormatNat(n)

\* `{}` of an f32: the shortest decimal that reads back as the same value
FormatF32(f) ==
    LET a == IF f < 0 THEN 0 - f ELSE f
        frac == CASE a % 4 = 0 -> <<>>
                  [] a % 4 = 1 -> <<46, 50, 53>>
                  [] a % 4 = 2 -> <<46, 53>>
                  [] a % 4 = 3 -> <<46, 55, 53>>
    IN  (IF f < 0 THEN <<45>> ELSE <<>>) \o FormatNat(a \div 4) \o frac

wr_Action(this) ==
    FormatI64(this.delta) \o <<124>> \o FormatF32(this.x) \o <<124>>
        \o FormatF32(this.y) \o <<124>> \o FormatF32(this.z) \o <<44>>

----------------------------------------------------------------------------
(* The LZMA container (xz2's lzma_alone encoder and decoder).  The header  *)
(* is the format's: a properties byte, the dictionary size and the         *)
(* uncompressed size, which the encoder leaves unknown (all ones) and so   *)
(* closes the stream with an end marker.  The range coder is not modelled: *)
(* its output is stood for by a leading zero byte and the text itself.     *)

LzmaProps == 93
LzmaHeaderLen == 13
LzmaEndMarker == <<255, 255>>

\* the dictionary size of preset `level` (0..9), as a power of two
DictBits(level) ==
    CASE level = 0 -> 18 [] level = 1 -> 20 [] level = 2 -> 21
      [] level \in {3, 4} -> 22 [] level \in {5, 6} -> 23
      [] level = 7 -> 24 [] level = 8 -> 25 [] OTHER -> 26

LzmaEncode(text, level) ==
    <<LzmaProps>> \o wr_int(2 ^ DictBits(level)) \o wr_long(<<0 - 1, 0 - 1>>)
        \o <<0>> \o text \o LzmaEndMarker

\* The text, or an error for a stream that is cut short, does not
\* start with a header the encoder writes, or does not end in the marker.
\* The dictionary size only sizes the decoder's window.
LzmaDecode(raw) ==
    LET n == Len(raw)
        min == LzmaHeaderLen + 1 + Len(LzmaEndMarker)
    IN  IF n >= min
           /\ raw[1] = LzmaProps
           /\ SubSeq(raw, 6, 13) = wr_long(<<0 - 1, 0 - 1>>)
           /\ raw[14] = 0
           /\ SubSeq(raw, n - Len(LzmaEndMarker) + 1, n) = LzmaEndMarker
        THEN Ok(n, SubSeq(raw, LzmaHeaderLen + 2, n - Len(LzmaEndMarker)))
        ELSE Err

----------------------------------------------------------------------------
(* The replay.                                                             *)

replay_data(raw) ==
    Try(LzmaDecode(raw), LAMBDA data : Ok(0, actions(data.val).val))

write_raw_replay_data(raw) == wr_int(Len(raw)) \o raw

write_replay_data(actions_, compression_level) ==
    LET text == IF IsSome(actions_)
                THEN Concat([i \in 1..Len(Unwrap(actions_)) |->
                                wr_Action(Unwrap(actions_)[i])])
                ELSE <<>>
    IN  write_raw_replay_data(LzmaEncode(text, compression_level))

replay_fields ==
    << <<"mode", "mode", TRUE>>,
       <<"version", "int", TRUE>>,
       <<"beatmap_hash", "opt_string", TRUE>>,
       <<"player_name", "opt_string", TRUE>>,
       <<"replay_hash", "opt_string", TRUE>>,
       <<"count_300", "short", TRUE>>,
       <<"count_100", "short", TRUE>>,
       <<"count_50", "short", TRUE>>,
       <<"count_geki", "short", TRUE>>,
       <<"count_katsu", "short", TRUE>>,
       <<"count_miss", "short", TRUE>>,
       <<"score", "int", TRUE>>,
       <<"max_combo", "short", TRUE>>,
       <<"perfect_combo", "boolean", TRUE>>,
       <<"mods", "int", TRUE>>,
       <<"life_graph", "opt_string", TRUE>>,
       <<"timestamp", "datetime", TRUE>> >>

\* length_value!(int, replay_data): the block is cut out by its length and
\* handed to replay_data whole
replay_payload(bytes, pos, standalone) ==
    IF ~standalone
    THEN Try(tag(bytes, pos, <<255, 255, 255, 255>>),
             LAMBDA t : Ok(t.pos, None))
    ELSE Try(int(bytes, pos), LAMBDA len :
             IF len.val < 0 \/ ~Has(bytes, len.pos, len.val) THEN Err
             ELSE Try(replay_data(SubSeq(bytes, len.pos + 1,
                                         len.pos + len.val)),
                      LAMBDA rd : Ok(len.pos + len.val, Some(rd.val))))

replay(bytes, standalone) ==
    Try(do_parse(bytes, 0, replay_fields, 1, Empty, 0), LAMBDA head :
    Try(replay_payload(bytes, head.pos, standalone), LAMBDA payload :
    Try(long(bytes, payload.pos), LAMBDA online_score_id :
        Ok(online_score_id.pos,
           head.val @@ ("replay_data" :> payload.val)
                    @@ ("online_score_id" :> online_score_id.val)))))

Replay_from_bytes(bytes) == Returned(replay(bytes, TRUE))

\* writer!(Replay): compress_data is Option<u32>
wr_Replay(this, compress_data) ==
    Concat(<<
        wr_byte(ModeRaw(this.mode)),
        wr_int(this.version),
        wr_opt_string(this.beatmap_hash),
        wr_opt_string(this.player_name),
        wr_opt_string(this.replay_hash),
        wr_short(this.count_300),
        wr_short(this.count_100),
        wr_short(this.count_50),
        wr_short(this.count_geki),
        wr_short(this.count_katsu),
        wr_short(this.count_miss),
        wr_int(this.score),
        wr_short(this.max_combo),
        wr_boolean(this.perfect_combo),
        wr_int(this.mods),
        wr_opt_string(this.life_graph),
        wr_datetime(this.timestamp),
        IF IsSome(compress_data)
        THEN write_replay_data(this.replay_data, Unwrap(compress_data))
        ELSE wr_int(0 - 1),
        wr_long(this.online_score_id) >>)

\* the level handed to the writer as it is given
Replay_to_writer_as_given(this, compression_level) ==
    wr_Replay(this, compression_level)

\* Replay::to_writer: compression_level is Option<u32>
Replay_to_writer(this, compression_level) ==
    wr_Replay(this, Some(IF IsSome(compression_level)
                         THEN Unwrap(compression_level)
                         ELSE DEFAULT_COMPRESSION_LEVEL))

----------------------------------------------------------------------------
\* the parser a field names
Field(kind, bytes, pos, version) ==
    CASE kind = "byte" -> byte(bytes, pos)
      [] kind = "short" -> short(bytes, pos)
      [] kind = "int" -> int(bytes, pos)
      [] kind = "long" -> long(bytes, pos)
      [] kind = "single" -> single(bytes, pos)
      [] kind = "double" -> double(bytes, pos)
      [] kind = "boolean" -> boolean(bytes, pos)
      [] kind = "datetime" -> datetime(bytes, pos)
      [] kind = "opt_string" -> opt_string(bytes, pos)
      [] kind = "ranked_status" -> ranked_status(bytes, pos)
      [] kind = "grade" -> grade(bytes, pos)
      [] kind = "mode" -> mode(bytes, pos)
      [] kind = "difficulty_value" -> difficulty_value(bytes, pos, version)
      [] kind = "star_rating" -> star_rating(bytes, pos, version)
      [] kind = "star_ratings" -> star_ratings(bytes, pos, version)
      [] kind = "timing_point" -> timing_point(bytes, pos)
      [] kind = "timing_points" ->
            length_count(bytes, pos, "timing_point", version)
      [] kind = "beatmap" -> beatmap(bytes, pos, version)
      [] kind = "number" -> number(bytes, pos)
      [] kind = "tag 0x08" -> tag(bytes, pos, <<8>>)
      [] kind = "tag 0x0c" -> tag(bytes, pos, <<12>>)
      [] kind = "tag 0x0d" -> tag(bytes, pos, <<13>>)
      [] kind = "tag |" -> tag(bytes, pos, <<124>>)
      [] kind = "tag ," -> tag(bytes, pos, <<44>>)

----------------------------------------------------------------------------
(* Inputs.                                                                 *)

MaxBeatmaps == 1
MaxRatings == 2

\* one version below and one at each threshold
Versions ==
    {CHANGE_20140609 - 1, CHANGE_20140609, CHANGE_20191106 - 1,
     CHANGE_20191106, CHANGE_20250107 - 1, CHANGE_20250107}

\* 0x80000000: the low limb of an f64 half way between two f32 values
HalfBit == 0 - MaxI32 - 1

\* (mods, stars): 5.0, which an f32 holds, and a value only an f64 holds
RatingEntries == << <<0, F64(20)>>, <<64, <<HalfBit, 13>> >> >>

RatingTable(len, bits) ==
    [i \in 1..len |-> RatingEntries[((bits \div (2 ^ (i - 1))) % 2) + 1]]

RatingTables ==
    {RatingTable(len, bits) : len \in 0..MaxRatings, bits \in 0..(2 ^ MaxRatings - 1)}

\* 4.0, 4.5 (not a whole number) and 300.0 (above a byte)
DifficultyValues == <<16, 18, 1200>>

Str(s) == Some(s)
Ticks == <<1234, 56>>

BeatmapSample(table, d, m, p) ==
    [artist_ascii |-> Str(<<97>>),
     artist_unicode |-> None,
     title_ascii |-> Str(<<>>),
     title_unicode |-> None,
     creator |-> Str(<<112, 101>>),
     difficulty_name |-> None,
     audio |-> None,
     hash |-> Str(<<48, 102>>),
     file_name |-> None,
     status |-> IF m = 0 THEN "Ranked" ELSE "Loved",
     hitcircle_count |-> 300,
     slider_count |-> 2,
     spinner_count |-> 0,
     last_modified |-> Ticks,
     approach_rate |-> DifficultyValues[d + 1],
     circle_size |-> 16,
     hp_drain |-> DifficultyValues[((2 * d) % 3) + 1],
     overall_difficulty |-> 32,
     slider_velocity |-> <<HalfBit, 5>>,
     std_ratings |-> table,
     taiko_ratings |-> <<>>,
     ctb_ratings |-> table,
     mania_ratings |-> <<>>,
     drain_time |-> 90,
     total_time |-> 95000,
     preview_time |-> 0 - 1,
     timing_points |->
        IF p = 0 THEN <<>>
        ELSE << [bpm |-> F64(480), offset |-> F64(0), inherits |-> TRUE] >>,
     beatmap_id |-> 0 - 1,
     beatmapset_id |-> 41,
     thread_id |-> 0,
     std_grade |-> IF p = 0 THEN "Unplayed" ELSE "SS",
     taiko_grade |-> "Unplayed",
     ctb_grade |-> "D",
     mania_grade |-> "SSPlus",
     local_beatmap_offset |-> 0,
     stack_leniency |-> 3,
     mode |-> IF m = 0 THEN "Standard" ELSE "Mania",
     song_source |-> None,
     tags |-> Str(<<116, 32, 117>>),
     online_offset |-> 0,
     title_font |-> None,
     last_played |-> IF p = 0 THEN None ELSE Some(Ticks),
     is_osz2 |-> FALSE,
     folder_name |-> Str(<<102>>),
     last_online_check |-> U64(7),
     ignore_sounds |-> FALSE,
     ignore_skin |-> TRUE,
     disable_storyboard |-> FALSE,
     disable_video |-> FALSE,
     visual_override |-> FALSE,
     mysterious_short |-> IF m = 0 THEN None ELSE Some(7),
     mysterious_last_modified |-> 0,
     mania_scroll_speed |-> 12]

\* n beatmaps, each differing from the one before
BeatmapList(n, table, d, m, p) ==
    [i \in 1..n |-> BeatmapSample(table, d, m, (p + i - 1) % 2)]

ListingSample(version, unban, n, table, d, m, p) ==
    [version |-> version,
     folder_count |-> n,
     unban_date |-> IF unban THEN Some(Ticks) ELSE None,
     player_name |-> IF unban THEN None ELSE Str(<<112>>),
     beatmaps |-> BeatmapList(n, table, d, m, p),
     user_permissions |-> 5]

Listings ==
    {ListingSample(v, u, n, t, d, m, p) :
        v \in Versions, u \in BOOLEAN, n \in 0..MaxBeatmaps,
        t \in RatingTables, d \in 0..2, m \in 0..1, p \in 0..1}

MaxActions == 2

ActionSamples ==
    << [delta |-> 12, x |-> 14, y |-> 0 - 1, z |-> 0],
       [delta |-> 0 - 3, x |-> 2048, y |-> 3, z |-> 4] >>

ActionList(len, k) == [i \in 1..len |-> ActionSamples[((k + i) % 2) + 1]]

ReplayDatas ==
    {None} \cup {Some(ActionList(len, k)) : len \in 0..MaxActions, k \in 0..1}

ReplaySample(data, g) ==
    [mode |-> IF g THEN "Taiko" ELSE "Standard",
     version |-> CHANGE_20191106,
     beatmap_hash |-> Str(<<48, 102>>),
     player_name |-> IF g THEN None ELSE Str(<<112>>),
     replay_hash |-> None,
     count_300 |-> 300,
     count_100 |-> 2,
     count_50 |-> 0,
     count_geki |-> 1,
     count_katsu |-> 0,
     count_miss |-> 3,
     score |-> 123456,
     max_combo |-> 77,
     perfect_combo |-> g,
     mods |-> 64,
     life_graph |-> IF g THEN Str(<<48, 124, 49, 44>>) ELSE None,
     timestamp |-> Ticks,
     replay_data |-> data,
     online_score_id |-> IF g THEN U64(0) ELSE <<9, 1>>]

Replays == {ReplaySample(data, g) : data \in ReplayDatas, g \in BOOLEAN}

CompressionLevels == {1, DEFAULT_COMPRESSION_LEVEL, 9}
OptLevels == {None} \cup {Some(l) : l \in CompressionLevels}

\* the versions that have rating tables
RatingVersions == {v \in Versions : v >= CHANGE_20140609}

\* one version of each of the four layouts
LayoutVersions ==
    {CHANGE_20140609 - 1, CHANGE_20140609, CHANGE_20191106, CHANGE_20250107}

\* the listings whose buffers are damaged: every layout, with and without
\* an entry, a rating table and the two optional timestamps
DamagedListings ==
    {ListingSample(v, p = 0, n, RatingTable(p, 1), 0, p, p) :
        v \in LayoutVersions, n \in 0..MaxBeatmaps, p \in 0..1}

\* the bytes a damaged buffer gets: zero, a rating type tag, all ones
CorruptBytes == {0, 12, 255}

\* the entries written and read on their own
BeatmapSamples ==
    {BeatmapSample(t, d, m, p) :
        t \in RatingTables, d \in 0..2, m \in 0..1, p \in 0..1}

\* the bytes put after a buffer: one byte, and the start of another record
Extensions == { <<0>>, <<8, 255, 255, 255, 255>> }

\* the listings whose buffers are extended: every layout, with no entry and
\* with one
ExtendedListings ==
    {ListingSample(v, p = 0, p, RatingTable(p, 1), 0, p, p) :
        v \in LayoutVersions, p \in 0..1}

MaxEntries == 2

\* the listings whose order is looked at: up to MaxEntries entries, each
\* differing from the one before, with every rating table
OrderedListings ==
    {ListingSample(v, TRUE, n, t, 0, 0, p) :
        v \in LayoutVersions, n \in 0..MaxEntries, t \in RatingTables,
        p \in 0..1}

\* a difficulty stat: every whole number a byte holds, and 4.5, 255.75,
\* 300.0 and -1.0, which a byte does not hold
WholeStats == {U8AsF32(b) : b \in 0..255}
DifficultyInputs == WholeStats \cup {18, 1023, 1200, 0 - 4}

\* the lengths an entry is made to declare: none, too short, 0xffffffff and
\* more than any buffer holds
DeclaredLengths == {0, 1, 0 - 1, HugeLen}

----------------------------------------------------------------------------
(* The state machine: one action per call of the interface, and the        *)
(* environment's damage to a buffer between writing and reading it.        *)

Init ==
    /\ op = "init"
    /\ value = NoValue
    /\ arg = NoValue
    /\ wire = <<>>
    /\ clean = <<>>
    /\ damage = "none"
    /\ result = NoValue
    /\ rem = 0 - 1

Written(name, this, with, bytes) ==
    /\ op' = name
    /\ value' = this
    /\ arg' = with
    /\ wire' = bytes
    /\ clean' = bytes
    /\ UNCHANGED <<damage, result, rem>>

\* Listing::to_writer on a fresh buffer
ListingToWriter(inputs) ==
    /\ op = "init"
    /\ \E this \in inputs :
        Written("Listing::to_writer", this, NoValue, Listing_to_writer(this))

\* Replay::to_writer on a fresh buffer
ReplayToWriter ==
    /\ op = "init"
    /\ \E this \in Replays, compression_level \in OptLevels :
        Written("Replay::to_writer", this, compression_level,
                Replay_to_writer(this, compression_level))

\* Replay::wr_args, the writer itself, as a score list calls it
ReplayWrArgs ==
    /\ op = "init"
    /\ \E this \in Replays, compress_data \in OptLevels :
        Written("Replay::wr_args", this, compress_data,
                wr_Replay(this, compress_data))

\* (ModSet, f64)::wr_args on a fresh buffer: one rating record, written for
\* a version that has rating tables
StarRatingWrArgs ==
    /\ op = "init"
    /\ \E i \in 1..Len(RatingEntries), version \in RatingVersions :
        Written("(ModSet, f64)::wr_args", RatingEntries[i], version,
                wr_star_rating(RatingEntries[i], version))

\* Action::wr of each action of a list in turn: the text that is compressed
ActionWr ==
    /\ op = "init"
    /\ \E len \in 0..MaxActions, k \in 0..1 :
        Written("Action::wr", ActionList(len, k), NoValue,
                Concat([i \in 1..len |-> wr_Action(ActionList(len, k)[i])]))

\* Grade::raw and RankedStatus::raw, of a value of the enumeration or of
\* the value that from_raw has just returned
Raw ==
    /\ \/ /\ op = "init"
          /\ \/ \E g \in GradeSet :
                    /\ op' = "Grade::raw"
                    /\ value' = g
                    /\ result' = Grade_raw(g)
             \/ \E s \in RankedStatusSet :
                    /\ op' = "RankedStatus::raw"
                    /\ value' = s
                    /\ result' = RankedStatus_raw(s)
       \/ /\ op = "Grade::from_raw"
          /\ IsSome(result)
          /\ op' = "Grade::from_raw, Grade::raw"
          /\ value' = Unwrap(result)
          /\ result' = Grade_raw(Unwrap(result))
       \/ /\ op = "RankedStatus::from_raw"
          /\ IsSome(result)
          /\ op' = "RankedStatus::from_raw, RankedStatus::raw"
          /\ value' = Unwrap(result)
          /\ result' = RankedStatus_raw(Unwrap(result))
    /\ UNCHANGED <<arg, wire, clean, damage, rem>>

\* Grade::from_raw and RankedStatus::from_raw, of any byte or of the byte
\* that raw has just returned
FromRaw ==
    /\ \/ /\ op = "init"
          /\ \E b \in 0..255 :
                /\ arg' = b
                /\ \/ op' = "Grade::from_raw" /\ result' = Grade_from_raw(b)
                   \/ /\ op' = "RankedStatus::from_raw"
                      /\ result' = RankedStatus_from_raw(b)
       \/ /\ op = "Grade::raw"
          /\ op' = "Grade::raw, Grade::from_raw"
          /\ arg' = result
          /\ result' = Grade_from_raw(result)
       \/ /\ op = "RankedStatus::raw"
          /\ op' = "RankedStatus::raw, RankedStatus::from_raw"
          /\ arg' = result
          /\ result' = RankedStatus_from_raw(result)
    /\ UNCHANGED <<value, wire, clean, damage, rem>>

IsListingBuffer == op = "Listing::to_writer"
IsActionText == op = "Action::wr"
IsRatingBuffer == op = "(ModSet, f64)::wr_args"
IsReplayBuffer == op \in {"Replay::to_writer", "Replay::wr_args"}

\* one byte of the buffer is overwritten
Corrupt ==
    /\ IsListingBuffer \/ IsReplayBuffer \/ IsRatingBuffer \/ IsActionText
    /\ damage = "none"
    /\ \E i \in 1..Len(wire), b \in CorruptBytes :
        /\ wire[i] # b
        /\ wire' = [wire EXCEPT ![i] = b]
    /\ damage' = "corrupt"
    /\ UNCHANGED <<op, value, arg, clean, result, rem>>

\* the buffer is cut short
Truncate ==
    /\ IsListingBuffer \/ IsReplayBuffer
    /\ damage = "none"
    /\ \E n \in 0..(Len(wire) - 1) : wire' = SubSeq(wire, 1, n)
    /\ damage' = "truncate"
    /\ UNCHANGED <<op, value, arg, clean, result, rem>>

Read(name, r) ==
    /\ op' = name
    /\ result' = Returned(r)
    /\ rem' = IF r.ok THEN Len(wire) - r.pos ELSE 0 - 1
    /\ UNCHANGED <<value, wire, clean, damage>>

Decoded(name, r) == Read(name, r) /\ UNCHANGED arg

\* Listing::from_bytes on the buffer
ListingFromBytes ==
    /\ IsListingBuffer
    /\ Decoded("Listing::from_bytes", listing(wire))

\* Replay::from_bytes on the buffer: replay(bytes, true)
ReplayFromBytes ==
    /\ IsReplayBuffer
    /\ Decoded("Replay::from_bytes", replay(wire, TRUE))

\* replay(bytes, false), as a score list calls it
ReplayEmbedded ==
    /\ IsReplayBuffer
    /\ Decoded("replay", replay(wire, FALSE))

\* star_rating on the buffer, for any version that has rating tables
StarRating ==
    /\ IsRatingBuffer
    /\ \E version \in RatingVersions :
        /\ op' = "star_rating"
        /\ arg' = [written |-> arg, supplied |-> version]
        /\ result' = Returned(star_rating(wire, 0, version))
        /\ rem' = IF star_rating(wire, 0, version).ok
                  THEN Len(wire) - star_rating(wire, 0, version).pos
                  ELSE 0 - 1
    /\ UNCHANGED <<value, wire, clean, damage>>

\* actions on the text
Actions ==
    /\ IsActionText
    /\ Decoded("actions", actions(wire))

\* Beatmap::wr_args on a fresh buffer: one entry, as PrefixedList writes it
BeatmapWrArgs ==
    /\ op = "init"
    /\ \E this \in BeatmapSamples, version \in Versions :
        Written("Beatmap::wr_args", this, version, wr_Beatmap(this, version))

IsBeatmapBuffer == op = "Beatmap::wr_args"

\* the four bytes of an entry's declared length are overwritten
DeclareLength ==
    /\ IsBeatmapBuffer
    /\ damage = "none"
    /\ arg < CHANGE_20191106
    /\ \E n \in DeclaredLengths :
        /\ wr_int(n) # SubSeq(wire, 1, 4)
        /\ wire' = wr_int(n) \o SubSeq(wire, 5, Len(wire))
    /\ damage' = "declare"
    /\ UNCHANGED <<op, value, arg, clean, result, rem>>

\* beatmap on the buffer, at the version it was written for
BeatmapParse ==
    /\ IsBeatmapBuffer
    /\ Decoded("beatmap", beatmap(wire, 0, arg))

\* wr_difficulty_value! on a fresh buffer: one difficulty stat
DifficultyValueWr ==
    /\ op = "init"
    /\ \E f \in DifficultyInputs, version \in Versions :
        Written("wr_difficulty_value!", f, version,
                wr_difficulty_value(f, version))

\* difficulty_value on the buffer, at the version it was written for
DifficultyValue ==
    /\ op = "wr_difficulty_value!"
    /\ Decoded("difficulty_value", difficulty_value(wire, 0, arg))

\* Vec<(ModSet, f64)>::wr_args on a fresh buffer: one rating table
StarRatingsWrArgs ==
    /\ op = "init"
    /\ \E this \in RatingTables, version \in Versions :
        Written("Vec<(ModSet, f64)>::wr_args", this, version,
                wr_star_ratings(this, version))

\* star_ratings on the buffer, for any version
StarRatings ==
    /\ op = "Vec<(ModSet, f64)>::wr_args"
    /\ \E version \in Versions :
        /\ arg' = [written |-> arg, supplied |-> version]
        /\ Read("star_ratings", star_ratings(wire, 0, version))

\* Listing::to_writer of the listing that Listing::from_bytes has returned,
\* on a fresh buffer
ListingRewrite ==
    /\ op = "Listing::from_bytes"
    /\ result.ok
    /\ op' = "Listing::from_bytes, Listing::to_writer"
    /\ wire' = Listing_to_writer(result.val)
    /\ UNCHANGED <<value, arg, clean, damage, result, rem>>

\* more bytes are put after the buffer, as written or with a byte changed
Extend ==
    /\ IsListingBuffer \/ IsReplayBuffer
    /\ damage \in {"none", "corrupt"}
    /\ \E more \in Extensions : wire' = wire \o more
    /\ damage' = IF damage = "none" THEN "extend" ELSE "corrupt, extend"
    /\ UNCHANGED <<op, value, arg, clean, result, rem>>

Next == ListingToWriter(Listings) \/ ListingFromBytes

Spec == Init /\ [][Next]_vars

NextListingDamage ==
    \/ ListingToWriter(DamagedListings)
    \/ Corrupt
    \/ ListingFromBytes

SpecListingDamage == Init /\ [][NextListingDamage]_vars

NextRating ==
    \/ StarRatingWrArgs
    \/ Corrupt
    \/ StarRating

SpecRating == Init /\ [][NextRating]_vars

NextEnum == Raw \/ FromRaw

SpecEnum == Init /\ [][NextEnum]_vars

NextActions ==
    \/ ActionWr
    \/ Corrupt
    \/ Actions

SpecActions == Init /\ [][NextActions]_vars

NextReplay ==
    \/ ReplayToWriter
    \/ ReplayWrArgs
    \/ Corrupt
    \/ ReplayFromBytes
    \/ ReplayEmbedded

SpecReplay == Init /\ [][NextReplay]_vars

NextTruncate ==
    \/ ListingToWriter(DamagedListings)
    \/ ReplayToWriter
    \/ ReplayWrArgs
    \/ Truncate
    \/ ListingFromBytes
    \/ ReplayFromBytes
    \/ ReplayEmbedded

SpecTruncate == Init /\ [][NextTruncate]_vars

NextBeatmap ==
    \/ BeatmapWrArgs
    \/ DeclareLength
    \/ BeatmapParse

SpecBeatmap == Init /\ [][NextBeatmap]_vars

NextDifficulty ==
    \/ DifficultyValueWr
    \/ DifficultyValue
    \/ BeatmapWrArgs
    \/ BeatmapParse

SpecDifficulty == Init /\ [][NextDifficulty]_vars

NextTable == StarRatingsWrArgs \/ StarRatings

SpecTable == Init /\ [][NextTable]_vars

NextOrder ==
    \/ StarRatingsWrArgs
    \/ StarRatings
    \/ ListingToWriter(OrderedListings)
    \/ ListingFromBytes

SpecOrder == Init /\ [][NextOrder]_vars

NextRewrite ==
    \/ ListingToWriter(Listings)
    \/ ListingFromBytes
    \/ ListingRewrite

SpecRewrite == Init /\ [][NextRewrite]_vars

NextExtend ==
    \/ ListingToWriter(ExtendedListings)
    \/ ReplayToWriter
    \/ Corrupt
    \/ Extend
    \/ ListingFromBytes
    \/ ReplayFromBytes

SpecExtend == Init /\ [][NextExtend]_vars

----------------------------------------------------------------------------
(* Properties.                                                             *)

\* A value the decoder can return at the version: the fields the format of
\* the version does not carry hold what the decoder puts there, and the
\* numbers fit the width the version stores them in.
RatingKeys == {"std_ratings", "taiko_ratings", "ctb_ratings", "mania_ratings"}

ValidRatings(table, version) ==
    /\ version < CHANGE_20140609 => table = <<>>
    /\ version >= CHANGE_20250107 =>
            \A i \in 1..Len(table) : table[i][2] = F32AsF64(F64AsF32(table[i][2]))

ValidDifficulty(f, version) ==
    version < CHANGE_20140609 => f = U8AsF32(F32AsU8(f))

ValidBeatmap(b, version) ==
    /\ \A k \in RatingKeys :
            ValidRatings(b[k], version)
    /\ \A k \in {"approach_rate", "circle_size", "hp_drain", "overall_difficulty"} :
            ValidDifficulty(b[k], version)
    /\ IsSome(b.mysterious_short) <=> version < CHANGE_20140609

ValidListing(L) ==
    \A i \in 1..Len(L.beatmaps) : ValidBeatmap(L.beatmaps[i], L.version)

\* C1: Listing::from_bytes of the bytes Listing::to_writer wrote for a valid
\* listing succeeds and returns the listing, field for field, at versions
\* below and at each of the three thresholds.
C1_RoundTrip ==
    op = "Listing::from_bytes" /\ ValidListing(value)
        => result.ok /\ result.val = value

\* a valid listing at the newest format whose entry has rating tables, a
\* timing point and a time of last play has been written and read back
C1_Witness ==
    /\ op = "Listing::from_bytes"
    /\ ValidListing(value)
    /\ value.version = CHANGE_20250107
    /\ Len(value.beatmaps) = MaxBeatmaps
    /\ Len(value.beatmaps[1].std_ratings) = MaxRatings
    /\ IsSome(value.beatmaps[1].last_played)
    /\ result.ok

\* the offset at which the named field of a record starts
FieldAt(bytes, pos, fields, name, version) ==
    do_parse(bytes, pos,
             SubSeq(fields, 1, (CHOOSE i \in 1..Len(fields) : fields[i][1] = name) - 1),
             1, Empty, version).pos

UnbanAt(bytes) == FieldAt(bytes, 0, listing_fields, "account_unlocked", 0)

\* the offset of a field of the first entry: past the listing's head and
\* the four bytes of the count
EntryFieldAt(bytes, name) ==
    FieldAt(bytes, do_parse(bytes, 0, listing_fields, 1, Empty, 0).pos + 4,
            beatmap_fields(AsVersion(int(bytes, 0).val)), name,
            AsVersion(int(bytes, 0).val))

\* the flag of the first entry's time of last play
LastPlayedAt(bytes) == EntryFieldAt(bytes, "unplayed")

\* the nine bytes at offset q are what the claim says is written for opt
OptionEncoded(bytes, q, opt) ==
    IF opt = None
    THEN SubSeq(bytes, q + 1, q + 9) = <<1, 0, 0, 0, 0, 0, 0, 0, 0>>
    ELSE bytes[q + 1] = 0 /\ SubSeq(bytes, q + 2, q + 9) = wr_datetime(Unwrap(opt))

\* opt is what the claim says is read from the nine bytes at offset q
OptionDecoded(bytes, q, opt) ==
    opt = IF bytes[q + 1] # 0 THEN None ELSE Some(datetime(bytes, q + 1).val)

\* C2: the unban date and the time of last play are written as the flag 1
\* and the timestamp 0 when None, and as the flag 0 and the timestamp when
\* Some; a flag that is set decodes to None whatever the eight bytes after
\* it hold, and a flag of 0 decodes to Some of the timestamp.
C2_OptionalCollapsing ==
    /\ op = "Listing::to_writer" /\ damage = "none" =>
        /\ OptionEncoded(clean, UnbanAt(clean), value.unban_date)
        /\ Len(value.beatmaps) >= 1 =>
               OptionEncoded(clean, LastPlayedAt(clean),
                             value.beatmaps[1].last_played)
    /\ op = "Listing::from_bytes" /\ result.ok =>
        /\ OptionDecoded(wire, UnbanAt(wire), result.val.unban_date)
        /\ Len(result.val.beatmaps) >= 1 =>
               OptionDecoded(wire, LastPlayedAt(wire),
                             result.val.beatmaps[1].last_played)

\* a listing written with no time of last play, whose placeholder was
\* overwritten in the buffer, has been read: the flag is set, the eight
\* bytes are not zero, and the entry decoded has no time of last play
C2_Witness ==
    /\ op = "Listing::from_bytes"
    /\ damage = "corrupt"
    /\ result.ok
    /\ Len(result.val.beatmaps) >= 1
    /\ wire[LastPlayedAt(wire) + 1] = 1
    /\ SubSeq(wire, LastPlayedAt(wire) + 2, LastPlayedAt(wire) + 9)
           # SubSeq(clean, LastPlayedAt(wire) + 2, LastPlayedAt(wire) + 9)
    /\ result.val.beatmaps[1].last_played = None

\* the listing with every rating table of every entry emptied
WithoutRatings(L) ==
    [L EXCEPT !.beatmaps =
        [i \in 1..Len(L.beatmaps) |->
            [k \in DOMAIN L.beatmaps[i] |->
                IF k \in RatingKeys THEN <<>> ELSE L.beatmaps[i][k]]]]

\* C3: below 20140609 each of the four rating tables of an entry, empty or
\* not, is written as no bytes at all (the buffer is the one written for
\* the listing with its tables emptied), and the decoder takes no bytes for
\* a table and returns it empty, without an error.
C3_EpochGating ==
    op \in {"Listing::to_writer", "Listing::from_bytes"}
      /\ value.version < CHANGE_20140609 =>
        /\ \A i \in 1..Len(value.beatmaps) : \A k \in RatingKeys :
                wr_star_ratings(value.beatmaps[i][k], value.version) = <<>>
        /\ clean = Listing_to_writer(WithoutRatings(value))
        /\ op = "Listing::from_bytes" =>
            /\ result.ok
            /\ rem = 0
            /\ \A i \in 1..Len(result.val.beatmaps) : \A k \in RatingKeys :
                    result.val.beatmaps[i][k] = <<>>
            /\ Len(value.beatmaps) >= 1 => \A k \in RatingKeys :
                    star_ratings(wire, EntryFieldAt(wire, k), value.version)
                        = Ok(EntryFieldAt(wire, k), <<>>)

\* an entry with full rating tables has been written and read back below
\* 20140609, and its tables have come back empty
C3_Witness ==
    /\ op = "Listing::from_bytes"
    /\ value.version < CHANGE_20140609
    /\ Len(value.beatmaps) >= 1
    /\ Len(value.beatmaps[1].std_ratings) = MaxRatings
    /\ result.ok
    /\ result.val.beatmaps[1].std_ratings = <<>>

\* the type tag the version implies: 0x0d for a double, 0x0c for a float
TypeTag(version) == IF version < CHANGE_20250107 THEN 13 ELSE 12

\* C4: at a version that has rating tables, star_rating returns an error,
\* and no rating, when the record's first byte is not 0x08 or its type tag
\* is not the one of the supplied version; a record written for one side
\* of 20250107 and read with a version of the other side is an error.
C4_TagEnforcement ==
    op = "star_rating" =>
        /\ wire[1] # 8 \/ wire[6] # TypeTag(arg.supplied) =>
                ~result.ok /\ result.val = NoValue
        /\ damage = "none"
             /\ (arg.written < CHANGE_20250107) # (arg.supplied < CHANGE_20250107)
             => ~result.ok /\ result.val = NoValue

\* a record written with a double has been read as one that holds a float,
\* which has all its bytes, and the read has failed
C4_Witness ==
    /\ op = "star_rating"
    /\ damage = "none"
    /\ arg.written = CHANGE_20250107 - 1
    /\ arg.supplied = CHANGE_20250107
    /\ wire[1] = 8
    /\ ~result.ok

\* the offset of a replay's payload: the end of the fields before it
PayloadAt(bytes) == do_parse(bytes, 0, replay_fields, 1, Empty, 0).pos

HeadParses(bytes) == do_parse(bytes, 0, replay_fields, 1, Empty, 0).ok

Sentinel == <<255, 255, 255, 255>>

\* the payload is a block of length zero, and the score id is there after it
ZeroLengthBlock(bytes) ==
    /\ HeadParses(bytes)
    /\ Has(bytes, PayloadAt(bytes), 4 + 8)
    /\ SubSeq(bytes, PayloadAt(bytes) + 1, PayloadAt(bytes) + 4) = <<0, 0, 0, 0>>

\* C5: replay(bytes, false) succeeds only on the four bytes ff ff ff ff at
\* the payload's place, and then replay_data is None; replay(bytes, true)
\* accepts a length-prefixed block, a block of length zero too, which gives
\* Some of the empty list of actions.
C5_SentinelExclusivity ==
    /\ op = "replay" /\ result.ok =>
        /\ SubSeq(wire, PayloadAt(wire) + 1, PayloadAt(wire) + 4) = Sentinel
        /\ result.val.replay_data = None
    /\ op = "Replay::from_bytes" /\ ZeroLengthBlock(wire) =>
        /\ result.ok
        /\ result.val.replay_data = Some(<<>>)

\* the part of C5 that holds: without `standalone` nothing but the sentinel
\* is read at the payload's place, and what is read is None; with it, a
\* block the encoder wrote is read as Some list of actions
C5_SentinelOnly ==
    /\ op = "replay" /\ result.ok =>
        /\ SubSeq(wire, PayloadAt(wire) + 1, PayloadAt(wire) + 4) = Sentinel
        /\ result.val.replay_data = None
    /\ op = "replay" /\ HeadParses(wire) /\ Has(wire, PayloadAt(wire), 4 + 8)
         /\ SubSeq(wire, PayloadAt(wire) + 1, PayloadAt(wire) + 4) = Sentinel
         => result.ok
    /\ op = "Replay::from_bytes" /\ damage = "none" /\ IsSome(arg) =>
            result.ok /\ IsSome(result.val.replay_data)

\* a block of length zero has been given to Replay::from_bytes
C5_ZeroLengthRead ==
    /\ op = "Replay::from_bytes"
    /\ ZeroLengthBlock(wire)
    /\ ~result.ok

\* the text `12|3.5|-0.25|0,` and the action it spells
ExampleText == <<49, 50, 124, 51, 46, 53, 124, 45, 48, 46, 50, 53, 124, 48, 44>>
ExampleAction == [delta |-> 12, x |-> 14, y |-> 0 - 1, z |-> 0]

\* a `|` of the text has been overwritten: the record it was in is malformed
SeparatorMissing ==
    \E i \in 1..Len(wire) : clean[i] = 124 /\ wire[i] # 124

\* C6: the text of actions decodes to one Action for each well-formed
\* record `d|x|y|z,` (`12|3.5|-0.25|0,` to the one action 12, 3.5, -0.25, 0),
\* the empty text to the empty list, and a text with a malformed record, the
\* first or a later one, to an error and to no list of the records before it.
C6_AllOrNothing ==
    op = "actions" =>
        /\ damage = "none" => result.ok /\ result.val = value
        /\ wire = ExampleText => result.ok /\ result.val = <<ExampleAction>>
        /\ wire = <<>> => result.ok /\ result.val = <<>>
        /\ SeparatorMissing => ~result.ok

\* the part of C6 that holds: the well-formed texts
C6_WellFormed ==
    op = "actions" =>
        /\ damage = "none" => result.ok /\ result.val = value /\ rem = 0
        /\ wire = ExampleText => result.ok /\ result.val = <<ExampleAction>>
        /\ wire = <<>> => result.ok /\ result.val = <<>>

\* a text whose second record has lost a separator has been decoded: the
\* result is the list of the first record alone, not an error
C6_PartialList ==
    /\ op = "actions"
    /\ SeparatorMissing
    /\ Len(value) >= 2
    /\ result.ok
    /\ result.val = <<value[1]>>

C6_ExampleRead ==
    op = "actions" /\ wire = ExampleText /\ result.val = <<ExampleAction>>

\* C7: from_raw(g.raw()) is Some(g) for every Grade and every RankedStatus;
\* Grade::from_raw(b) is None exactly for b = 8 and for b above 7 other than
\* 9; and the value from_raw(b) returns has b as its raw code.
C7_Closure ==
    /\ op \in {"Grade::raw, Grade::from_raw",
                "RankedStatus::raw, RankedStatus::from_raw"} =>
            result = Some(value)
    /\ op = "Grade::from_raw" =>
            (result = None <=> arg = 8 \/ (arg > 7 /\ arg # 9))
    /\ op \in {"Grade::from_raw, Grade::raw",
                "RankedStatus::from_raw, RankedStatus::raw"} =>
            result = arg

\* the grade after the gap has gone through raw and from_raw
C7_Witness ==
    /\ op = "Grade::raw, Grade::from_raw"
    /\ value = "Unplayed"
    /\ arg = 9
    /\ result = Some("Unplayed")

\* the buffer holds the sentinel at the payload's place, then the score id
SentinelWritten(bytes, this) ==
    /\ SubSeq(bytes, PayloadAt(bytes) + 1, PayloadAt(bytes) + 4) = Sentinel
    /\ SubSeq(bytes, PayloadAt(bytes) + 5, Len(bytes))
           = wr_long(this.online_score_id)

\* the buffer holds a 32-bit length at the payload's place, that many bytes
\* of payload, then the score id
BlockWritten(bytes, this) ==
    /\ int(bytes, PayloadAt(bytes)).val >= 0
    /\ SubSeq(bytes, PayloadAt(bytes) + 4 + int(bytes, PayloadAt(bytes)).val + 1,
              Len(bytes))
           = wr_long(this.online_score_id)
    /\ Len(bytes) = PayloadAt(bytes) + 4 + int(bytes, PayloadAt(bytes)).val + 8

\* C8 as it is stated, of both encoders: with the compression argument None
\* the sentinel is written, whatever replay_data is; with Some(level) a
\* length and that many bytes of payload are written, for a replay_data of
\* None too; the online score id follows.
C8_PayloadBranch ==
    op \in {"Replay::to_writer", "Replay::wr_args"} =>
        /\ arg = None => SentinelWritten(clean, value)
        /\ IsSome(arg) => BlockWritten(clean, value)

\* C8: the writer of a Replay (wr_args) writes the sentinel for the argument
\* None and a length-prefixed block for Some(level), for a replay_data of
\* None too; Replay::to_writer never writes the sentinel: for None it writes
\* what it writes for Some(DEFAULT_COMPRESSION_LEVEL), a length-prefixed
\* block; the online score id follows in every case.
C8_PayloadBranchAmended ==
    /\ op = "Replay::wr_args" =>
        /\ arg = None => SentinelWritten(clean, value)
        /\ IsSome(arg) => BlockWritten(clean, value)
    /\ op = "Replay::to_writer" =>
        /\ BlockWritten(clean, value)
        /\ arg = None =>
                clean = Replay_to_writer(value, Some(DEFAULT_COMPRESSION_LEVEL))

\* a replay with no replay_data has been written by Replay::to_writer with
\* no compression level: the payload is a block, not the sentinel
C8_Witness ==
    /\ op = "Replay::to_writer"
    /\ arg = None
    /\ value.replay_data = None
    /\ BlockWritten(clean, value)
    /\ ~SentinelWritten(clean, value)

\* where the entries start, the version they are read at, and their count
EntriesAt(bytes) == do_parse(bytes, 0, listing_fields, 1, Empty, 0).pos + 4
EntriesVersion(bytes) == AsVersion(int(bytes, 0).val)
EntryCount(bytes) == int(bytes, EntriesAt(bytes) - 4).val

\* the head and the count are read, and of the entries counted the k-th
\* does not decode though the k - 1 before it do
EntryFails(bytes, k) ==
    /\ do_parse(bytes, 0, listing_fields, 1, Empty, 0).ok
    /\ Has(bytes, EntriesAt(bytes) - 4, 4)
    /\ k <= EntryCount(bytes)
    /\ EntryCount(bytes) <= Len(bytes)
    /\ count(bytes, EntriesAt(bytes), "beatmap", k - 1, <<>>,
             EntriesVersion(bytes)).ok
    /\ ~beatmap(bytes,
                count(bytes, EntriesAt(bytes), "beatmap", k - 1, <<>>,
                      EntriesVersion(bytes)).pos,
                EntriesVersion(bytes)).ok

\* C9: when one of the counted entries of a listing does not decode,
\* Listing::from_bytes returns an error for the whole listing, and no
\* Listing of the entries before it: a call either returns an error and no
\* value, or was given a buffer none of whose counted entries fails.
C9_NoPartialRecovery ==
    op = "Listing::from_bytes" =>
        \/ ~result.ok /\ result.val = NoValue
        \/ \A k \in 1..(MaxBeatmaps + 1) : ~EntryFails(wire, k)

\* a buffer whose last counted entry does not decode, after an entry that
\* does, has been given to Listing::from_bytes, which returned an error
C9_Witness ==
    /\ op = "Listing::from_bytes"
    /\ EntryFails(wire, MaxBeatmaps + 1)
    /\ ~result.ok

\* the parser's result is a success that leaves no byte of the buffer unread
Complete(r, bytes) == r.ok /\ r.pos = Len(bytes)

\* C10: of a buffer that decodes as a listing, or as a replay, with no byte
\* left over, every proper prefix fails to decode.
C10_TruncationIsError ==
    damage = "truncate" =>
        /\ op = "Listing::from_bytes" /\ Complete(listing(clean), clean) =>
                ~result.ok
        /\ op = "Replay::from_bytes" /\ Complete(replay(clean, TRUE), clean) =>
                ~result.ok
        /\ op = "replay" /\ Complete(replay(clean, FALSE), clean) =>
                ~result.ok

\* a listing with an entry, less its last byte, has been given to
\* Listing::from_bytes, which returned an error
C10_Witness ==
    /\ damage = "truncate"
    /\ op = "Listing::from_bytes"
    /\ Complete(listing(clean), clean)
    /\ Len(listing(clean).val.beatmaps) = MaxBeatmaps
    /\ Len(wire) = Len(clean) - 1
    /\ ~result.ok

\* the same of a replay with its block of actions
C10_WitnessReplay ==
    /\ damage = "truncate"
    /\ op = "Replay::from_bytes"
    /\ Complete(replay(clean, TRUE), clean)
    /\ Len(wire) = Len(clean) - 1
    /\ ~result.ok

\* C11: below 20191106 the encoder of an entry writes a 32-bit value that is
\* the number of bytes of the body after it, the body being what write_dry
\* gives for the entry and the version; at 20191106 and above it writes the
\* body alone.
C11_LengthPrefix ==
    op \in {"Beatmap::wr_args", "beatmap"} =>
        IF arg < CHANGE_20191106
        THEN /\ int(clean, 0).ok
             /\ int(clean, 0).val = Len(clean) - 4
             /\ SubSeq(clean, 5, Len(clean)) = write_dry(value, arg)
        ELSE clean = write_dry(value, arg)

\* an entry with full rating tables has been written with its length at a
\* version that has rating tables and the length prefix
C11_Witness ==
    /\ op = "Beatmap::wr_args"
    /\ arg >= CHANGE_20140609
    /\ arg < CHANGE_20191106
    /\ Len(value.std_ratings) = MaxRatings
    /\ int(clean, 0).val = Len(clean) - 4
    /\ Len(clean) > 4

\* C12: below 20191106 the decoder of an entry takes four bytes of declared
\* length before the first string, and the entry decoded and the bytes
\* consumed are the same whatever the four bytes hold: a length that is not
\* the size of the body is no error; at 20191106 and above the first string
\* is read at the start, and the body alone is consumed.
C12_LengthNotValidated ==
    op = "beatmap" =>
        /\ result.ok
        /\ rem = 0
        /\ result = Returned(beatmap(clean, 0, arg))
        /\ FieldAt(wire, 0, beatmap_fields(arg), "artist_ascii", arg)
                = IF arg < CHANGE_20191106 THEN 4 ELSE 0
        /\ Len(wire) = Len(write_dry(value, arg))
                        + IF arg < CHANGE_20191106 THEN 4 ELSE 0

\* an entry whose declared length is not the size of its body has been
\* decoded, to the entry the buffer as written decodes to
C12_Witness ==
    /\ op = "beatmap"
    /\ damage = "declare"
    /\ int(wire, 0).val # Len(wire) - 4
    /\ int(wire, 0).val = 0 - 1
    /\ result.ok
    /\ rem = 0
    /\ result.val = beatmap(clean, 0, arg).val

\* the four difficulty stats, in the order of the stream
DifficultyKeys ==
    <<"approach_rate", "circle_size", "hp_drain", "overall_difficulty">>

\* the bytes a difficulty stat takes at the version
StatWidth(version) == IF version < CHANGE_20140609 THEN 1 ELSE 4

\* where the i-th difficulty stat of an entry starts
StatAt(bytes, i, version) ==
    FieldAt(bytes, 0, beatmap_fields(version), DifficultyKeys[i], version)

\* the bytes of the i-th difficulty stat of an entry
StatBytes(bytes, i, version) ==
    SubSeq(bytes, StatAt(bytes, i, version) + 1,
           StatAt(bytes, i, version) + StatWidth(version))

\* the bytes the claim gives a stat f: below 20140609 the one byte f is
\* cast to, at and above it the four bytes of the float
StatEncoded(f, version) ==
    IF version < CHANGE_20140609
    THEN <<IF f < 0 THEN 0 ELSE IF f > 4 * 255 THEN 255 ELSE f \div 4>>
    ELSE <<f % 256, (f \div 256) % 256, (f \div 65536) % 256,
           (f \div 16777216) % 256>>

\* f is the float the claim reads from the bytes of a stat
StatDecoded(bytes, f, version) ==
    IF version < CHANGE_20140609
    THEN Len(bytes) = 1 /\ f % 4 = 0 /\ f \div 4 = bytes[1]
    ELSE Len(bytes) = 4 /\ f = FromLE4(bytes[1], bytes[2], bytes[3], bytes[4])

\* C13: below 20140609 a difficulty stat is one unsigned byte on the wire and
\* decodes to the float of the byte's value, at 20140609 and above it is the
\* four bytes of a 32-bit float; the encoder writes what the decoder reads,
\* so that every whole number 0..255 comes back as it was below 20140609 and
\* every float does at and above it; and each of the four stats of an entry
\* is written and read so, whatever the other three are.
C13_DifficultyValue ==
    /\ op \in {"wr_difficulty_value!", "difficulty_value"} =>
        /\ clean = StatEncoded(value, arg)
        /\ Len(clean) = StatWidth(arg)
        /\ op = "difficulty_value" =>
            /\ result.ok
            /\ rem = 0
            /\ StatDecoded(wire, result.val, arg)
            /\ wr_difficulty_value(result.val, arg) = wire
            /\ arg >= CHANGE_20140609 \/ value \in WholeStats =>
                    result.val = value
    /\ op \in {"Beatmap::wr_args", "beatmap"} =>
        \A i \in 1..Len(DifficultyKeys) :
            /\ StatBytes(clean, i, arg) = StatEncoded(value[DifficultyKeys[i]], arg)
            /\ StatAt(clean, i, arg)
                    = StatAt(clean, 1, arg) + (i - 1) * StatWidth(arg)
            /\ op = "beatmap" =>
                    StatDecoded(StatBytes(wire, i, arg),
                                result.val[DifficultyKeys[i]], arg)
    /\ op \in {"Beatmap::wr_args", "beatmap"} =>
            FieldAt(clean, 0, beatmap_fields(arg), "slider_velocity", arg)
                = StatAt(clean, 1, arg) + 4 * StatWidth(arg)

\* the largest whole number a byte holds has been written as one byte below
\* 20140609 and read back as it was
C13_Witness ==
    /\ op = "difficulty_value"
    /\ arg < CHANGE_20140609
    /\ value = U8AsF32(255)
    /\ wire = <<255>>
    /\ result.ok
    /\ result.val = value

\* an entry whose stats differ has been written and read back below 20140609
C13_WitnessEntry ==
    /\ op = "beatmap"
    /\ arg < CHANGE_20140609
    /\ value.approach_rate # value.hp_drain
    /\ result.ok
    /\ result.val.overall_difficulty = value.overall_difficulty
    /\ result.val.approach_rate # value.approach_rate

\* the version a rating table was written for
TableVersion == IF op = "star_ratings" THEN arg.written ELSE arg

\* the bytes of a record at the version: 14 with a double, 10 with a float
RecordLen(version) == IF version < CHANGE_20250107 THEN 14 ELSE 10

\* the bytes of the i-th record of a table
RecordBytes(bytes, i, version) ==
    SubSeq(bytes, 4 + (i - 1) * RecordLen(version) + 1,
           4 + i * RecordLen(version))

\* the record is 0x08, the mask, then 0x0d and the eight bytes of the double
\* or 0x0c and the four bytes of the float the double narrows to
RecordLaidOut(rec, this, version) ==
    /\ Len(rec) = RecordLen(version)
    /\ rec[1] = 8
    /\ SubSeq(rec, 2, 5) = LE(this[1], 4)
    /\ IF version < CHANGE_20250107
       THEN rec[6] = 13
            /\ SubSeq(rec, 7, 14) = LE(this[2][1], 4) \o LE(this[2][2], 4)
       ELSE rec[6] = 12 /\ SubSeq(rec, 7, 10) = LE(F64AsF32(this[2]), 4)

\* the pair read from a record: the mask and the double, or the float
\* widened
RecordRead(rec, version) ==
    << FromLE4(rec[2], rec[3], rec[4], rec[5]),
       IF version < CHANGE_20250107
       THEN << FromLE4(rec[7], rec[8], rec[9], rec[10]),
               FromLE4(rec[11], rec[12], rec[13], rec[14]) >>
       ELSE << 0, FromLE4(rec[7], rec[8], rec[9], rec[10]) >> >>

\* C14: at 20140609 and above a rating table is written as a 32-bit count and
\* that many records, each 0x08, a 32-bit mask, and 0x0d with a 64-bit float
\* (14 bytes) below 20250107 or 0x0c with a 32-bit float (10 bytes) at and
\* above it; the decoder of the same version reads the whole buffer, a float
\* widened to 64 bits, and the decoder of the other record layout fails on
\* it; below 20140609 nothing is written and nothing read.
C14_RecordLayout ==
    op \in {"Vec<(ModSet, f64)>::wr_args", "star_ratings"} =>
        /\ TableVersion < CHANGE_20140609 => clean = <<>>
        /\ TableVersion >= CHANGE_20140609 =>
            /\ Len(clean) = 4 + Len(value) * RecordLen(TableVersion)
            /\ SubSeq(clean, 1, 4) = LE(Len(value), 4)
            /\ \A i \in 1..Len(value) :
                    RecordLaidOut(RecordBytes(clean, i, TableVersion),
                                  value[i], TableVersion)
        /\ op = "star_ratings" /\ arg.supplied = arg.written =>
            /\ result.ok
            /\ rem = 0
            /\ arg.written >= CHANGE_20140609 =>
                /\ Len(result.val) = Len(value)
                /\ \A i \in 1..Len(value) :
                        result.val[i]
                            = RecordRead(RecordBytes(wire, i, arg.written),
                                         arg.written)
        /\ op = "star_ratings" /\ Len(value) >= 1
             /\ arg.written >= CHANGE_20140609
             /\ arg.supplied >= CHANGE_20140609
             /\ RecordLen(arg.supplied) # RecordLen(arg.written)
             => ~result.ok

\* a full table with a rating only a double holds has been written at
\* 20250107 in records of 10 bytes and read back, the rating narrowed
C14_Witness ==
    /\ op = "star_ratings"
    /\ arg.written = CHANGE_20250107
    /\ arg.supplied = CHANGE_20250107
    /\ Len(value) = MaxRatings
    /\ Len(wire) = 4 + 10 * MaxRatings
    /\ result.ok
    /\ \E i \in 1..Len(value) : result.val[i][2] # value[i][2]

RECURSIVE EntryStart(_, _, _)
\* where the i-th entry of the listing written for L starts in the buffer:
\* after the head, the count and the entries before it
EntryStart(bytes, L, i) ==
    IF i = 1 THEN EntriesAt(bytes)
    ELSE EntryStart(bytes, L, i - 1)
            + Len(wr_Beatmap(L.beatmaps[i - 1], AsVersion(L.version)))

\* C16: a rating table is written at 20140609 and above with its count equal
\* to its length and its records in the order held, and read back with as
\* many records as the count, in the order of the stream, a repeated
\* combination of modifiers kept as often as it is there; a listing is
\* written with its count equal to the number of its entries and the entries
\* in the order held, and read back in the order of the buffer.
C16_OrderPreserved ==
    /\ op \in {"Vec<(ModSet, f64)>::wr_args", "star_ratings"}
         /\ TableVersion >= CHANGE_20140609 =>
        /\ int(clean, 0).val = Len(value)
        /\ \A i \in 1..Len(value) :
                RecordBytes(clean, i, TableVersion)
                    = wr_star_rating(value[i], TableVersion)
        /\ op = "star_ratings" /\ arg.supplied = arg.written =>
            /\ result.ok
            /\ Len(result.val) = int(wire, 0).val
            /\ \A i \in 1..Len(result.val) :
                /\ result.val[i][1] = value[i][1]
                /\ result.val[i]
                        = RecordRead(RecordBytes(wire, i, arg.written),
                                     arg.written)
    /\ op \in {"Listing::to_writer", "Listing::from_bytes"} =>
        /\ EntryCount(clean) = Len(value.beatmaps)
        /\ \A i \in 1..Len(value.beatmaps) :
                SubSeq(clean, EntryStart(clean, value, i) + 1,
                       EntryStart(clean, value, i + 1))
                    = wr_Beatmap(value.beatmaps[i], AsVersion(value.version))
        /\ op = "Listing::from_bytes" =>
            /\ result.ok
            /\ Len(result.val.beatmaps) = EntryCount(wire)
            /\ \A i \in 1..Len(result.val.beatmaps) :
                /\ result.val.beatmaps[i]
                        = beatmap(wire, EntryStart(wire, value, i),
                                  AsVersion(value.version)).val
                /\ result.val.beatmaps[i].std_grade
                        = value.beatmaps[i].std_grade
                /\ result.val.beatmaps[i].timing_points
                        = value.beatmaps[i].timing_points
                /\ \A k \in RatingKeys :
                        value.version >= CHANGE_20140609 =>
                            /\ Len(result.val.beatmaps[i][k])
                                    = Len(value.beatmaps[i][k])
                            /\ \A j \in 1..Len(value.beatmaps[i][k]) :
                                    result.val.beatmaps[i][k][j][1]
                                        = value.beatmaps[i][k][j][1]

\* a listing of entries that differ, the first with a table that holds one
\* combination of modifiers twice, has been written and read back: the
\* entries and the two records are there in the order they were held in
C16_Witness ==
    /\ op = "Listing::from_bytes"
    /\ value.version >= CHANGE_20140609
    /\ Len(value.beatmaps) = MaxEntries
    /\ value.beatmaps[1] # value.beatmaps[2]
    /\ Len(value.beatmaps[1].std_ratings) = MaxRatings
    /\ value.beatmaps[1].std_ratings[1] = value.beatmaps[1].std_ratings[2]
    /\ result.ok
    /\ Len(result.val.beatmaps) = MaxEntries
    /\ result.val.beatmaps[1].std_grade = value.beatmaps[1].std_grade
    /\ result.val.beatmaps[2].std_grade = value.beatmaps[2].std_grade
    /\ Len(result.val.beatmaps[1].std_ratings) = MaxRatings

\* a table of two different records has been read back in their order
C16_WitnessTable ==
    /\ op = "star_ratings"
    /\ arg.supplied = arg.written
    /\ arg.written >= CHANGE_20140609
    /\ Len(value) = MaxRatings
    /\ value[1][1] # value[2][1]
    /\ result.ok
    /\ result.val[1][1] = value[1][1]
    /\ result.val[2][1] = value[2][1]

\* C17: the buffer Listing::to_writer writes for any listing, valid or not,
\* is read by Listing::from_bytes without an error, and Listing::to_writer
\* of the listing read writes the same buffer, byte for byte, also where
\* the listing read is not the listing that was written.
C17_NormalisesInOneStep ==
    /\ op = "Listing::from_bytes" /\ damage = "none" => result.ok
    /\ op = "Listing::from_bytes, Listing::to_writer" /\ damage = "none" =>
            wire = clean

\* a listing below 20140609 with a full rating table, a difficulty stat
\* that a byte does not hold and no legacy short has been written, read and
\* written again: the listing read is another, the two buffers are the same
C17_Witness ==
    /\ op = "Listing::from_bytes, Listing::to_writer"
    /\ value.version < CHANGE_20140609
    /\ Len(value.beatmaps) >= 1
    /\ Len(value.beatmaps[1].std_ratings) = MaxRatings
    /\ ~ValidDifficulty(value.beatmaps[1].approach_rate, value.version)
    /\ value.beatmaps[1].mysterious_short = None
    /\ result.val # value
    /\ wire = clean

\* the same at 20250107 with a rating that a 32-bit float does not hold
C17_WitnessNarrowed ==
    /\ op = "Listing::from_bytes, Listing::to_writer"
    /\ value.version >= CHANGE_20250107
    /\ Len(value.beatmaps) >= 1
    /\ ~ValidRatings(value.beatmaps[1].std_ratings, value.version)
    /\ result.val # value
    /\ wire = clean

\* the buffer before more bytes were put after it
Unextended == SubSeq(wire, 1, Len(clean))

Extended == damage \in {"extend", "corrupt, extend"}

\* if r, the parser's result on the buffer before, is a success, the call
\* on the buffer has returned the same value and left the bytes r left and
\* the bytes put after
SameAs(r) ==
    r.ok => /\ result = Returned(r)
            /\ rem = Len(wire) - r.pos

\* C18: when a buffer decodes with Listing::from_bytes, or with
\* Replay::from_bytes, the buffer with more bytes after it decodes to the
\* same value: the bytes after the permissions, or after the online score
\* id, are left unread and are no error.
C18_TrailingBytesIgnored ==
    Extended =>
        /\ op = "Listing::from_bytes" => SameAs(listing(Unextended))
        /\ op = "Replay::from_bytes" => SameAs(replay(Unextended, TRUE))

\* a listing with an entry, as written and with bytes after it, has been
\* read: it is the listing read from the buffer as written, and the bytes
\* after it are left over
C18_Witness ==
    /\ op = "Listing::from_bytes"
    /\ damage = "extend"
    /\ Len(value.beatmaps) = 1
    /\ result.ok
    /\ Len(result.val.beatmaps) = 1
    /\ result = Listing_from_bytes(clean)
    /\ rem = Len(wire) - Len(clean)
    /\ rem > 1

\* the same of a replay with its block of actions
C18_WitnessReplay ==
    /\ op = "Replay::from_bytes"
    /\ damage = "extend"
    /\ result.ok
    /\ result.val.replay_data = Some(ActionList(MaxActions, 0))
    /\ rem = Len(wire) - Len(clean)
    /\ rem > 1

\* a buffer that decodes with bytes left over already has been extended
C18_WitnessLeftOver ==
    /\ op = "Listing::from_bytes"
    /\ damage = "corrupt, extend"
    /\ result.ok
    /\ rem > Len(wire) - Len(clean)

\* the buffer ends in the bytes of suffix
EndsWith(bytes, suffix) ==
    /\ Len(bytes) >= Len(suffix)
    /\ SubSeq(bytes, Len(bytes) - Len(suffix) + 1, Len(bytes)) = suffix

\* the end of an entry: the five feature booleans, what is written for the
\* legacy short, and the two fields after it
LegacyTail(this, legacy) ==
    Concat(<< wr_boolean(this.ignore_sounds),
              wr_boolean(this.ignore_skin),
              wr_boolean(this.disable_storyboard),
              wr_boolean(this.disable_video),
              wr_boolean(this.visual_override),
              legacy,
              wr_int(this.mysterious_last_modified),
              wr_byte(this.mania_scroll_speed) >>)

\* the value written for the legacy short: 0 when there is none
LegacyValue(this) ==
    IF IsSome(this.mysterious_short) THEN Unwrap(this.mysterious_short) ELSE 0

\* C15: below 20140609 the encoder writes one 16-bit legacy short after the
\* five feature booleans, 0 when mysterious_short is None, and the decoder
\* reads it as Some(value); at 20140609 and above the encoder writes no byte
\* for it, whatever mysterious_short holds, and the decoder yields None.
C15_LegacyShortGating ==
    op \in {"Beatmap::wr_args", "beatmap"} =>
        IF arg < CHANGE_20140609
        THEN /\ EndsWith(clean, LegacyTail(value, <<LegacyValue(value) % 256,
                                                    LegacyValue(value) \div 256>>))
             /\ op = "beatmap" =>
                    /\ result.ok
                    /\ result.val.mysterious_short = Some(LegacyValue(value))
                    /\ result.val.mysterious_short
                            = Some(short(wire, Len(wire) - 7).val)
        ELSE /\ EndsWith(clean, LegacyTail(value, <<>>))
             /\ clean = wr_Beatmap([value EXCEPT !.mysterious_short = None], arg)
             /\ op = "beatmap" =>
                    /\ result.ok
                    /\ result.val.mysterious_short = None

\* an entry with no legacy short has been written below 20140609 and read
\* back with the legacy short 0
C15_Witness ==
    /\ op = "beatmap"
    /\ damage = "none"
    /\ arg < CHANGE_20140609
    /\ value.mysterious_short = None
    /\ SubSeq(clean, Len(clean) - 6, Len(clean) - 5) = <<0, 0>>
    /\ result.ok
    /\ result.val.mysterious_short = Some(0)

\* an entry that holds a legacy short has been written at 20140609 or above
\* and read back with none
C15_WitnessDropped ==
    /\ op = "beatmap"
    /\ arg >= CHANGE_20140609
    /\ IsSome(value.mysterious_short)
    /\ result.ok
    /\ result.val.mysterious_short = None

=============================================================================
